---------------------------- MODULE Spec2Model ----------------------------
(***************************************************************************)
(* The Personal Expense Tracker (src/expense_tracker.py) as a state        *)
(* machine: one ExpenseTracker process at a time, its two storage files    *)
(* (expenses.csv, budget.txt) and the line-oriented prompts of run().      *)
(*                                                                         *)
(* Encoding of Python values                                               *)
(*   text       a TLA+ string; Chars gives its characters                  *)
(*   str value  [str |-> text]                                             *)
(*   float      [nan |-> FALSE, v |-> n] for the number n, NaN for nan.    *)
(*              Numbers are whole currency units with exact arithmetic;    *)
(*              binary rounding of sums is not modelled.                   *)
(*   None       PyNone                                                     *)
(*   dict       a function from its keys to values                         *)
(* A CSV file is held as its parsed fields (a header and rows of texts):   *)
(* the quoting done by csv.writer and undone by csv.reader is not          *)
(* modelled.  The file system never fails a read or a write.               *)
(***************************************************************************)
EXTENDS Integers, Sequences, FiniteSets, TLC

\* ------------------------------------------------------------------ bounds

\* Add-expense is offered only while the ledger holds fewer records.
MaxExpenses == 2

\* ------------------------------------------------------------- Python values

PyNone == [none |-> TRUE]

S(t) == [str |-> t]

F(n) == [nan |-> FALSE, v |-> n]

NaN == [nan |-> TRUE, v |-> 0]

IsStr(x) == DOMAIN x = {"str"}

IsFloat(x) == DOMAIN x = {"nan", "v"}

\* The characters of every text the model handles.
Chars ==
     "today"      :> <<"t","o","d","a","y">>
  @@ "2025-8-1"   :> <<"2","0","2","5","-","8","-","1">>
  @@ "2025-10-01" :> <<"2","0","2","5","-","1","0","-","0","1">>
  @@ "2025-13-40" :> <<"2","0","2","5","-","1","3","-","4","0">>
  @@ "08-2025"    :> <<"0","8","-","2","0","2","5">>
  @@ "10-2025"    :> <<"1","0","-","2","0","2","5">>
  @@ "13-2025"    :> <<"1","3","-","2","0","2","5">>
  @@ "10"         :> <<"1","0">>
  @@ "20"         :> <<"2","0">>
  @@ "0"          :> <<"0">>
  @@ "-5"         :> <<"-","5">>
  @@ "10.0"       :> <<"1","0",".","0">>
  @@ "20.0"       :> <<"2","0",".","0">>
  @@ "0.0"        :> <<"0",".","0">>
  @@ "-5.0"       :> <<"-","5",".","0">>
  @@ "nan"        :> <<"n","a","n">>
  @@ "abc"        :> <<"a","b","c">>
  @@ ""           :> <<>>

\* Code points of the characters above (str comparison is by code point).
Ord ==
     "-" :> 45 @@ "." :> 46
  @@ "0" :> 48 @@ "1" :> 49 @@ "2" :> 50 @@ "3" :> 51 @@ "4" :> 52
  @@ "5" :> 53 @@ "6" :> 54 @@ "7" :> 55 @@ "8" :> 56 @@ "9" :> 57
  @@ "a" :> 97 @@ "b" :> 98 @@ "c" :> 99 @@ "d" :> 100 @@ "n" :> 110
  @@ "o" :> 111 @@ "t" :> 116 @@ "y" :> 121

Digits == {"0","1","2","3","4","5","6","7","8","9"}

DigitVal == [c \in Digits |-> Ord[c] - Ord["0"]]

RECURSIVE SeqLess(_, _)
\* a < b for two character sequences, as Python compares str.
SeqLess(a, b) ==
  IF b = <<>> THEN FALSE
  ELSE IF a = <<>> THEN TRUE
  ELSE IF Ord[Head(a)] # Ord[Head(b)] THEN Ord[Head(a)] < Ord[Head(b)]
  ELSE SeqLess(Tail(a), Tail(b))

StrLess(s, t) == SeqLess(Chars[s], Chars[t])

AllDigits(cs) == cs # <<>> /\ \A i \in 1..Len(cs) : cs[i] \in Digits

RECURSIVE NumVal(_)
NumVal(cs) ==
  IF cs = <<>> THEN 0
  ELSE 10 * NumVal(SubSeq(cs, 1, Len(cs) - 1)) + DigitVal[cs[Len(cs)]]

RECURSIVE SplitOn(_, _)
\* The parts of cs between the occurrences of the character sep.
SplitOn(cs, sep) ==
  IF \A i \in 1..Len(cs) : cs[i] # sep THEN <<cs>>
  ELSE LET k == CHOOSE i \in 1..Len(cs) :
                  cs[i] = sep /\ \A j \in 1..(i - 1) : cs[j] # sep
       IN  <<SubSeq(cs, 1, k - 1)>> \o SplitOn(SubSeq(cs, k + 1, Len(cs)), sep)

\* ---------------------------------------------------------------- datetime

IsLeap(y) == (y % 4 = 0 /\ y % 100 # 0) \/ y % 400 = 0

DaysInMonth(y, m) ==
  IF m = 2 THEN (IF IsLeap(y) THEN 29 ELSE 28)
  ELSE IF m \in {4, 6, 9, 11} THEN 30 ELSE 31

\* The directives of strptime: %Y is four digits; %m and %d are one or two
\* digits naming 1..12 and 1..31.
YearPart(cs) == AllDigits(cs) /\ Len(cs) = 4 /\ NumVal(cs) >= 1

MonthPart(cs) == AllDigits(cs) /\ Len(cs) \in {1, 2} /\ NumVal(cs) \in 1..12

DayPart(cs) == AllDigits(cs) /\ Len(cs) \in {1, 2} /\ NumVal(cs) \in 1..31

BadTime == [ok |-> FALSE, year |-> 0, month |-> 0, day |-> 0]

\* datetime.datetime.strptime(t, '%Y-%m-%d'); ok = FALSE is ValueError.
StrptimeYmd(t) ==
  LET p == SplitOn(Chars[t], "-") IN
  IF Len(p) = 3 /\ YearPart(p[1]) /\ MonthPart(p[2]) /\ DayPart(p[3])
     /\ NumVal(p[3]) <= DaysInMonth(NumVal(p[1]), NumVal(p[2]))
  THEN [ok |-> TRUE, year |-> NumVal(p[1]), month |-> NumVal(p[2]),
        day |-> NumVal(p[3])]
  ELSE BadTime

\* datetime.datetime.strptime(t, '%m-%Y'); the day defaults to 1.
StrptimeMY(t) ==
  LET p == SplitOn(Chars[t], "-") IN
  IF Len(p) = 2 /\ MonthPart(p[1]) /\ YearPart(p[2])
  THEN [ok |-> TRUE, year |-> NumVal(p[2]), month |-> NumVal(p[1]), day |-> 1]
  ELSE BadTime

Pad(n, width) ==
  LET s == ToString(n) IN
  IF n < 10 /\ width >= 2 THEN "0" \o s ELSE s

\* now.strftime('%Y-%m-%d') for a four-digit year.
StrftimeYmd(now) ==
  ToString(now.year) \o "-" \o Pad(now.month, 2) \o "-" \o Pad(now.day, 2)

\* The values datetime.datetime.now() takes in the model.
NowDates == {[year |-> 2025, month |-> 10, day |-> 1]}

\* ------------------------------------------------------------------- float

BadFloat == [ok |-> FALSE, val |-> NaN]

\* float(t) for the texts of the model: "nan", or an optionally signed
\* decimal numeral (digits, then optionally a point and digits, at least one
\* digit in all) whose fraction is zero.  ok = FALSE is ValueError.
ParseFloat(t) ==
  LET cs    == Chars[t]
      neg   == cs # <<>> /\ Head(cs) = "-"
      body  == IF neg THEN Tail(cs) ELSE cs
      p     == SplitOn(body, ".")
      whole == p[1]
      frac  == IF Len(p) = 2 THEN p[2] ELSE <<>>
  IN  IF cs = <<"n","a","n">> THEN [ok |-> TRUE, val |-> NaN]
      ELSE IF Len(p) <= 2 /\ (whole = <<>> \/ AllDigits(whole))
              /\ (\A i \in 1..Len(frac) : frac[i] = "0")
              /\ (whole # <<>> \/ frac # <<>>)
           THEN [ok |-> TRUE,
                 val |-> F(IF neg THEN 0 - NumVal(whole) ELSE NumVal(whole))]
           ELSE BadFloat

\* str(x) and repr(x) of a float, which csv.writer and save_budget write.
FloatRepr(x) == IF x.nan THEN "nan" ELSE ToString(x.v) \o ".0"

FAdd(a, b) == IF a.nan \/ b.nan THEN NaN ELSE F(a.v + b.v)

FSub(a, b) == IF a.nan \/ b.nan THEN NaN ELSE F(a.v - b.v)

\* a < b, a <= b, a > b: every comparison with nan is False.
FLt(a, b) == ~a.nan /\ ~b.nan /\ a.v < b.v

FLe(a, b) == ~a.nan /\ ~b.nan /\ a.v <= b.v

FGt(a, b) == ~a.nan /\ ~b.nan /\ a.v > b.v


\* --------------------------------------------------------------------- csv

FieldNames == <<"date", "category", "amount", "description">>

FieldSet == {FieldNames[i] : i \in 1..Len(FieldNames)}

\* The key None, under which csv.DictReader files the surplus fields of a row.
RestKey == "<None>"

\* A storage file that does not exist.
Absent == [absent |-> TRUE]

\* One row of csv.DictReader: the header's names zipped with the row's
\* fields; a name past the end of the row maps to None, and fields past the
\* end of the header are gathered under the key None.  Header names are
\* distinct in every file of the model.
ReadRow(header, row) ==
  LET named == [k \in {header[i] : i \in 1..Len(header)} |->
                  LET i == CHOOSE j \in 1..Len(header) : header[j] = k
                  IN  IF i <= Len(row) THEN S(row[i]) ELSE PyNone]
  IN  IF Len(row) > Len(header)
      THEN named @@ (RestKey :> [list |-> SubSeq(row, Len(header) + 1, Len(row))])
      ELSE named

\* float(row['amount']) raises: TypeError for None, ValueError for bad text.
AmountRaises(d) ==
  "amount" \in DOMAIN d /\ (d["amount"] = PyNone \/ ~ParseFloat(d["amount"].str).ok)

RECURSIVE LoadRows(_, _, _)
\* The for loop of load_expenses over the rows that follow the header; acc
\* is self.expenses.  DictReader skips rows without fields.  raised = TRUE
\* when float() raised, which ends the loop with acc as it stands.
LoadRows(header, rows, acc) ==
  IF rows = <<>> THEN [expenses |-> acc, raised |-> FALSE]
  ELSE IF Head(rows) = <<>> THEN LoadRows(header, Tail(rows), acc)
  ELSE LET d == ReadRow(header, Head(rows)) IN
       IF AmountRaises(d) THEN [expenses |-> acc, raised |-> TRUE]
       ELSE IF "amount" \in DOMAIN d
            THEN LoadRows(header, Tail(rows),
                   Append(acc, [d EXCEPT !["amount"] = ParseFloat(d["amount"].str).val]))
            ELSE LoadRows(header, Tail(rows), Append(acc, d))

\* The inner try of load_expenses: budget.txt read and parsed.
LoadBudget(bfile) ==
  IF bfile = Absent THEN PyNone
  ELSE IF ParseFloat(bfile.text).ok THEN ParseFloat(bfile.text).val
  ELSE PyNone

\* load_expenses on the tracker self = [expenses, budget], given the files.
LoadExpenses(self, csv, bfile) ==
  IF csv = Absent THEN self
  ELSE LET r == LoadRows(csv.header, csv.rows, <<>>) IN
       IF r.raised
       THEN [expenses |-> r.expenses, budget |-> self.budget]
       ELSE [expenses |-> r.expenses, budget |-> LoadBudget(bfile)]

\* ExpenseTracker(): empty list, no budget, then load_expenses.
Construct(csv, bfile) ==
  LoadExpenses([expenses |-> <<>>, budget |-> PyNone], csv, bfile)

\* What csv.writer writes for a value: '' for None, repr for a float.
CellText(x) ==
  IF x = PyNone THEN "" ELSE IF IsFloat(x) THEN FloatRepr(x) ELSE x.str

\* DictWriter._dict_to_list: the four fields in order, '' for a missing key.
DictToRow(d) ==
  [i \in 1..Len(FieldNames) |->
     IF FieldNames[i] \in DOMAIN d THEN CellText(d[FieldNames[i]]) ELSE ""]

RECURSIVE WriteRows(_, _)
\* writer.writerows: a dict with a key that is no field name raises
\* ValueError, after the rows before it have been written.
WriteRows(recs, acc) ==
  IF recs = <<>> THEN acc
  ELSE IF ~(DOMAIN Head(recs) \subseteq FieldSet) THEN acc
  ELSE WriteRows(Tail(recs), Append(acc, DictToRow(Head(recs))))

\* save_expenses: the file is opened for writing, so it is replaced.
SaveExpenses(recs) == [header |-> FieldNames, rows |-> WriteRows(recs, <<>>)]

\* save_budget: budget.txt is written only when a budget is set.
SaveBudget(b, bfile) == IF b # PyNone THEN [text |-> FloatRepr(b)] ELSE bfile

\* ----------------------------------------------------------- view_expenses

Reverse(xs) == [i \in 1..Len(xs) |-> xs[Len(xs) + 1 - i]]

RECURSIVE InsertAsc(_, _, _)
\* i put into the ascending index list sorted, behind every index whose key
\* is not greater: the stable insertion of a sort that only asks "<".
InsertAsc(sorted, i, key) ==
  IF sorted = <<>> THEN <<i>>
  ELSE IF StrLess(key[i].str, key[Head(sorted)].str) THEN <<i>> \o sorted
  ELSE <<Head(sorted)>> \o InsertAsc(Tail(sorted), i, key)

RECURSIVE SortAsc(_, _)
SortAsc(idx, key) ==
  IF idx = <<>> THEN <<>>
  ELSE InsertAsc(SortAsc(SubSeq(idx, 1, Len(idx) - 1), key), idx[Len(idx)], key)

\* sorted(recs, key=lambda x: x['date'], reverse=True), as the indices of
\* recs in sorted order: the list is reversed, sorted stably in ascending
\* order and reversed again.
SortedReverse(recs) ==
  LET key == [i \in 1..Len(recs) |-> recs[i]["date"]]
  IN  Reverse(SortAsc(Reverse([i \in 1..Len(recs) |-> i]), key))

\* all(key in expense for key in [...]) of view_expenses.
Complete(d) == FieldSet \subseteq DOMAIN d

\* The format specs '<12', '<15', '<30' raise TypeError on None.
FormatRaises(d) ==
  d["date"] = PyNone \/ d["category"] = PyNone \/ d["description"] = PyNone

RECURSIVE PrintLines(_, _, _)
\* The for loop of view_expenses over the sorted indices: one line for each
\* record, a record's fields or the "skipped" notice.
PrintLines(order, recs, acc) ==
  IF order = <<>> THEN [lines |-> acc, error |-> ""]
  ELSE LET i == Head(order) IN
       IF Complete(recs[i])
       THEN IF FormatRaises(recs[i]) THEN [lines |-> acc, error |-> "TypeError"]
            ELSE PrintLines(Tail(order), recs, Append(acc, [idx |-> i, skipped |-> FALSE]))
       ELSE PrintLines(Tail(order), recs, Append(acc, [idx |-> i, skipped |-> TRUE]))

RECURSIVE SumAmounts(_)
\* sum(expense['amount'] for expense in recs if 'amount' in expense):
\* from 0, left to right.
SumAmounts(recs) ==
  IF recs = <<>> THEN F(0)
  ELSE LET init == SumAmounts(SubSeq(recs, 1, Len(recs) - 1))
           last == recs[Len(recs)]
       IN  IF "amount" \in DOMAIN last THEN FAdd(init, last["amount"]) ELSE init

\* view_expenses: what it prints, and the exception that ends it, if any.
\* The sort raises KeyError for a record without 'date' and TypeError when
\* it compares None.
ViewExpenses(recs) ==
  IF recs = <<>>
  THEN [kind |-> "view", lines |-> <<>>, error |-> "", total |-> F(0)]
  ELSE IF \E i \in 1..Len(recs) : "date" \notin DOMAIN recs[i]
  THEN [kind |-> "view", lines |-> <<>>, error |-> "KeyError", total |-> F(0)]
  ELSE IF Len(recs) >= 2 /\ \E i \in 1..Len(recs) : recs[i]["date"] = PyNone
  THEN [kind |-> "view", lines |-> <<>>, error |-> "TypeError", total |-> F(0)]
  ELSE LET pr == PrintLines(SortedReverse(recs), recs, <<>>)
       IN  [kind |-> "view", lines |-> pr.lines, error |-> pr.error,
            total |-> IF pr.error = "" THEN SumAmounts(recs) ELSE F(0)]

\* ------------------------------------------------------------ track_budget

\* The filter of track_budget: a truthy 'date' that strptime accepts and
\* that falls in the month.
InMonth(d, year, month) ==
  /\ "date" \in DOMAIN d
  /\ d["date"] # PyNone
  /\ d["date"].str # ""
  /\ StrptimeYmd(d["date"].str).ok
  /\ StrptimeYmd(d["date"].str).year = year
  /\ StrptimeYmd(d["date"].str).month = month

MonthlyExpenses(recs, year, month) ==
  SelectSeq(recs, LAMBDA d : InMonth(d, year, month))

\* Mutant of Accumulate: the amount replaces the category's total.
AccumulateOverwrite(cats, cat, amount) == (cat :> amount) @@ cats

\* categories[cat] = categories.get(cat, 0) + amount
Accumulate(cats, cat, amount) ==
  LET old == IF cat \in DOMAIN cats THEN cats[cat] ELSE F(0)
  IN  (cat :> FAdd(old, amount)) @@ cats

RECURSIVE CategoryTotals(_, _)
\* The loop that fills the dict categories.
CategoryTotals(recs, cats) ==
  IF recs = <<>> THEN cats
  ELSE LET d == Head(recs) IN
       IF "category" \in DOMAIN d /\ "amount" \in DOMAIN d
       THEN CategoryTotals(Tail(recs), Accumulate(cats, d["category"], d["amount"]))
       ELSE CategoryTotals(Tail(recs), cats)

\* Mutant of OverBudget: the warning is raised at remaining = 0 as well.
OverBudgetAtZero(remaining) == FLe(remaining, F(0))

\* if remaining < 0: the over-budget warning.
OverBudget(remaining) == FLt(remaining, F(0))

\* track_budget once the month is known.  The order and the percentages of
\* the category lines are print formatting and are left out.
TrackBudget(recs, b, year, month) ==
  LET monthly   == MonthlyExpenses(recs, year, month)
      total     == SumAmounts(monthly)
      remaining == FSub(b, total)
  IN  [kind |-> "track", year |-> year, month |-> month,
       found |-> Len(monthly), total_spent |-> total,
       remaining |-> remaining, over |-> OverBudget(remaining),
       categories |-> CategoryTotals(monthly, <<>>)]

\* ------------------------------------------------------------------ inputs

\* What the user types at the prompts.
DateInputs == {"today", "2025-8-1", "2025-10-01", "2025-13-40"}

Categories == {"Food", "Bus"}

AmountInputs == {"10", "nan", "0", "-5", "abc"}

Descriptions == {"lunch"}

BudgetInputs == {"10", "20", "0", "abc"}

ChoiceInputs == {"1", "2"}

MonthInputs == {"08-2025", "10-2025", "13-2025"}

\* The storage files a first run may find.
CsvEmpty == [header |-> FieldNames, rows |-> <<>>]

CsvBadAmount ==
  [header |-> FieldNames,
   rows   |-> << <<"2025-10-01", "Food", "10", "lunch">>,
                 <<"2025-8-1", "Bus", "abc", "lunch">> >>]

CsvNoDate ==
  [header |-> <<"category", "amount", "description">>,
   rows   |-> << <<"Food", "10", "lunch">> >>]

CsvNoAmount ==
  [header |-> <<"date", "category", "description">>,
   rows   |-> << <<"2025-10-01", "Food", "lunch">> >>]

CsvNegative ==
  [header |-> FieldNames,
   rows   |-> << <<"2025-10-01", "Food", "-5", "lunch">> >>]

CsvShortRow ==
  [header |-> FieldNames,
   rows   |-> << <<"2025-10-01", "Food", "10">> >>]

CsvLongRow ==
  [header |-> FieldNames,
   rows   |-> << <<>>, <<"2025-10-01", "Food", "10", "lunch", "abc">> >>]

\* The pairs (expenses.csv, budget.txt) a first run starts from.
InitialFiles ==
  { <<Absent, [text |-> "10.0"]>>,
    <<CsvEmpty, [text |-> "-5"]>>,
    <<CsvBadAmount, [text |-> "10.0"]>>,
    <<CsvNoDate, Absent>>,
    <<CsvNoAmount, [text |-> "10.0"]>>,
    <<CsvNegative, [text |-> "abc"]>>,
    <<CsvShortRow, Absent>>,
    <<CsvLongRow, Absent>> }

\* ------------------------------------------------------------------- state

VARIABLES
  expenses,    \* self.expenses
  budget,      \* self.budget
  csvFile,     \* expenses.csv
  budgetFile,  \* budget.txt
  pc,          \* the prompt the process waits at, or "exited" / "crashed"
  loc,         \* the local variables of the handler in progress
  out          \* what the last step printed

vars == <<expenses, budget, csvFile, budgetFile, pc, loc, out>>

NoLocals == <<>>

Running == pc \notin {"exited", "crashed"}

\* tracker = ExpenseTracker(); tracker.run() up to the first menu prompt.
Init ==
  \E f \in InitialFiles :
    /\ csvFile = f[1]
    /\ budgetFile = f[2]
    /\ expenses = Construct(f[1], f[2]).expenses
    /\ budget = Construct(f[1], f[2]).budget
    /\ pc = "menu"
    /\ loc = NoLocals
    /\ out = [kind |-> "startup"]

\* The program is run again after it has ended.
Restart ==
  /\ ~Running
  /\ expenses' = Construct(csvFile, budgetFile).expenses
  /\ budget' = Construct(csvFile, budgetFile).budget
  /\ pc' = "menu"
  /\ loc' = NoLocals
  /\ out' = [kind |-> "startup"]
  /\ UNCHANGED <<csvFile, budgetFile>>

\* input() raises EOFError or KeyboardInterrupt, which nothing catches.
EndOfInput ==
  /\ Running
  /\ pc' = "crashed"
  /\ loc' = NoLocals
  /\ out' = [kind |-> "interrupted"]
  /\ UNCHANGED <<expenses, budget, csvFile, budgetFile>>

\* ------------------------------------------------------------- add_expense

\* Choice '1': add_expense up to the date prompt.
ChooseAdd ==
  /\ pc = "menu"
  /\ Len(expenses) < MaxExpenses
  /\ pc' = "add_date"
  /\ loc' = NoLocals
  /\ out' = [kind |-> "prompt"]
  /\ UNCHANGED <<expenses, budget, csvFile, budgetFile>>

\* One pass of the date loop.
EnterDate ==
  /\ pc = "add_date"
  /\ \E t \in DateInputs, now \in NowDates :
       IF t = "today"
       THEN /\ loc' = [date_str |-> StrftimeYmd(now)]
            /\ pc' = "add_category"
            /\ out' = [kind |-> "prompt"]
       ELSE IF StrptimeYmd(t).ok
       THEN /\ loc' = [date_str |-> t]
            /\ pc' = "add_category"
            /\ out' = [kind |-> "prompt"]
       ELSE /\ loc' = loc
            /\ pc' = pc
            /\ out' = [kind |-> "rejected", input |-> t]
  /\ UNCHANGED <<expenses, budget, csvFile, budgetFile>>

EnterCategory ==
  /\ pc = "add_category"
  /\ \E c \in Categories :
       loc' = [date_str |-> loc.date_str, category |-> c]
  /\ pc' = "add_amount"
  /\ out' = [kind |-> "prompt"]
  /\ UNCHANGED <<expenses, budget, csvFile, budgetFile>>

\* float(amount_str) and amount <= 0 of add_expense: TRUE when the loop
\* breaks with the amount.
AmountAccepted(t) == ParseFloat(t).ok /\ ~FLe(ParseFloat(t).val, F(0))

\* One pass of the amount loop.
EnterAmount ==
  /\ pc = "add_amount"
  /\ \E t \in AmountInputs :
       IF AmountAccepted(t)
       THEN /\ loc' = [date_str |-> loc.date_str, category |-> loc.category,
                       amount |-> ParseFloat(t).val]
            /\ pc' = "add_description"
            /\ out' = [kind |-> "prompt"]
       ELSE /\ loc' = loc
            /\ pc' = pc
            /\ out' = [kind |-> "rejected", input |-> t]
  /\ UNCHANGED <<expenses, budget, csvFile, budgetFile>>

\* The description is read and the expense appended.
EnterDescription ==
  /\ pc = "add_description"
  /\ \E d \in Descriptions :
       expenses' = Append(expenses,
                     [date |-> S(loc.date_str), category |-> S(loc.category),
                      amount |-> loc.amount, description |-> S(d)])
  /\ pc' = "menu"
  /\ loc' = NoLocals
  /\ out' = [kind |-> "added"]
  /\ UNCHANGED <<budget, csvFile, budgetFile>>

\* ------------------------------------------------- the other menu choices

\* Choice '2': view_expenses; an exception it raises ends the process.
ChooseView ==
  /\ pc = "menu"
  /\ out' = ViewExpenses(expenses)
  /\ pc' = IF ViewExpenses(expenses).error = "" THEN "menu" ELSE "crashed"
  /\ UNCHANGED <<expenses, budget, csvFile, budgetFile, loc>>

\* Choice '3': set_budget up to its prompt; save_budget follows it.
ChooseSetBudget ==
  /\ pc = "menu"
  /\ pc' = "set_budget"
  /\ loc' = [then_save |-> TRUE]
  /\ out' = [kind |-> "prompt"]
  /\ UNCHANGED <<expenses, budget, csvFile, budgetFile>>

\* float(budget_str) and budget <= 0 of set_budget: TRUE when the budget
\* is assigned.
BudgetAccepted(t) == ParseFloat(t).ok /\ ~FLe(ParseFloat(t).val, F(0))

\* One pass of the loop of set_budget, and what follows it in the caller.
EnterBudget ==
  /\ pc = "set_budget"
  /\ \E t \in BudgetInputs :
       IF BudgetAccepted(t)
       THEN /\ budget' = ParseFloat(t).val
            /\ budgetFile' = IF loc.then_save
                             THEN SaveBudget(ParseFloat(t).val, budgetFile)
                             ELSE budgetFile
            /\ pc' = "menu"
            /\ loc' = NoLocals
            /\ out' = [kind |-> "budget_set"]
       ELSE /\ UNCHANGED <<budget, budgetFile, pc, loc>>
            /\ out' = [kind |-> "rejected", input |-> t]
  /\ UNCHANGED <<expenses, csvFile>>

\* Choice '4': track_budget up to its first prompt, which is set_budget's
\* when no budget is set (and then nothing is tracked or saved).
ChooseTrack ==
  /\ pc = "menu"
  /\ IF budget = PyNone
     THEN pc' = "set_budget" /\ loc' = [then_save |-> FALSE]
     ELSE pc' = "track_choice" /\ loc' = NoLocals
  /\ out' = [kind |-> "prompt"]
  /\ UNCHANGED <<expenses, budget, csvFile, budgetFile>>

\* The current month, or on to the month prompt for choice '2'.
EnterTrackChoice ==
  /\ pc = "track_choice"
  /\ \E c \in ChoiceInputs, now \in NowDates :
       IF c = "2"
       THEN pc' = "track_month" /\ out' = [kind |-> "prompt"]
       ELSE pc' = "menu" /\ out' = TrackBudget(expenses, budget, now.year, now.month)
  /\ UNCHANGED <<expenses, budget, csvFile, budgetFile, loc>>

\* One pass of the month loop.
EnterMonth ==
  /\ pc = "track_month"
  /\ \E t \in MonthInputs :
       IF StrptimeMY(t).ok
       THEN /\ pc' = "menu"
            /\ out' = TrackBudget(expenses, budget,
                                  StrptimeMY(t).year, StrptimeMY(t).month)
       ELSE /\ pc' = pc
            /\ out' = [kind |-> "rejected", input |-> t]
  /\ UNCHANGED <<expenses, budget, csvFile, budgetFile, loc>>

\* Choice '5': save_expenses and save_budget.
ChooseSave ==
  /\ pc = "menu"
  /\ csvFile' = SaveExpenses(expenses)
  /\ budgetFile' = SaveBudget(budget, budgetFile)
  /\ out' = [kind |-> "saved"]
  /\ UNCHANGED <<expenses, budget, pc, loc>>

\* Choice '6': the same, and the loop ends.  expenses and budget keep the
\* values the ended process had.
ChooseExit ==
  /\ pc = "menu"
  /\ csvFile' = SaveExpenses(expenses)
  /\ budgetFile' = SaveBudget(budget, budgetFile)
  /\ pc' = "exited"
  /\ out' = [kind |-> "bye"]
  /\ UNCHANGED <<expenses, budget, loc>>

\* Any other choice.
ChooseInvalid ==
  /\ pc = "menu"
  /\ out' = [kind |-> "invalid_choice"]
  /\ UNCHANGED <<expenses, budget, csvFile, budgetFile, pc, loc>>

Next ==
  \/ ChooseAdd
  \/ EnterDate
  \/ EnterCategory
  \/ EnterAmount
  \/ EnterDescription
  \/ ChooseView
  \/ ChooseSetBudget
  \/ EnterBudget
  \/ ChooseTrack
  \/ EnterTrackChoice
  \/ EnterMonth
  \/ ChooseSave
  \/ ChooseExit
  \/ ChooseInvalid
  \/ EndOfInput
  \/ Restart

Spec == Init /\ [][Next]_vars

\* ------------------------------------------- track_budget on drawn ledgers

\* The date texts add_expense stores.
StoredDates ==
  {IF t = "today" THEN StrftimeYmd(now) ELSE t :
     t \in {x \in DateInputs : x = "today" \/ StrptimeYmd(x).ok}, now \in NowDates}

\* The records add_expense appends.
AddableRecords ==
  {[date |-> S(t), category |-> S(c), amount |-> ParseFloat(a).val,
    description |-> S(d)] :
     t \in StoredDates, c \in Categories,
     a \in {x \in AmountInputs : AmountAccepted(x)}, d \in Descriptions}

SeqsUpTo(set, n) == UNION {[1..k -> set] : k \in 0..n}

\* The budgets set_budget assigns.
SettableBudgets == {ParseFloat(t).val : t \in {x \in BudgetInputs : BudgetAccepted(x)}}

\* A menu prompt of a run that loaded its files, then had records added and
\* possibly the budget set by choice '3', and then an invalid choice typed.
InitTrack ==
  \E f \in InitialFiles :
    LET t == Construct(f[1], f[2]) IN
    \E added \in SeqsUpTo(AddableRecords, MaxExpenses - Len(t.expenses)),
       b \in {t.budget} \cup SettableBudgets :
      /\ expenses = t.expenses \o added
      /\ budget = b
      /\ csvFile = f[1]
      /\ budgetFile = IF b = t.budget THEN f[2] ELSE SaveBudget(b, f[2])
      /\ pc = "menu"
      /\ loc = NoLocals
      /\ out = [kind |-> "invalid_choice"]

NextTrack ==
  \/ ChooseTrack
  \/ EnterBudget
  \/ EnterTrackChoice
  \/ EnterMonth

SpecTrack == InitTrack /\ [][NextTrack]_vars

\* ------------------------------------------------------------------ claims

\* A record's (date, category, amount, description), with Missing for a key
\* the record does not have.
Missing == [missing |-> TRUE]

Tuple(d) == [k \in FieldSet |-> IF k \in DOMAIN d THEN d[k] ELSE Missing]

SameTuples(a, b) ==
  Len(a) = Len(b) /\ \A i \in 1..Len(a) : Tuple(a[i]) = Tuple(b[i])

RECURSIVE SumOver(_, _)
\* The sum of f over the finite set I.
SumOver(I, f) ==
  IF I = {} THEN F(0)
  ELSE LET i == CHOOSE j \in I : TRUE IN FAdd(f[i], SumOver(I \ {i}, f))

\* The calendar date a record's date text denotes, as year*10000 + month*100
\* + day; 0 when it denotes none.
DateNum(d) ==
  IF "date" \in DOMAIN d /\ IsStr(d["date"]) /\ StrptimeYmd(d["date"].str).ok
  THEN StrptimeYmd(d["date"].str).year * 10000
       + StrptimeYmd(d["date"].str).month * 100 + StrptimeYmd(d["date"].str).day
  ELSE 0

\* The records of the ledger dated in the month track_budget last reported
\* on, and those of them that carry given keys.
TrackedIdx ==
  {i \in 1..Len(expenses) :
     DateNum(expenses[i]) \div 100 = out.year * 100 + out.month}

TrackedWith(keys) == {i \in TrackedIdx : keys \subseteq DOMAIN expenses[i]}

AmountOf == [i \in TrackedWith({"amount"}) |-> expenses[i]["amount"]]

\* The budget that budget.txt holds: its parsed text, or None when the file
\* is absent or its text is no number.
StoredBudget ==
  IF budgetFile # Absent /\ ParseFloat(budgetFile.text).ok
  THEN ParseFloat(budgetFile.text).val
  ELSE PyNone

\* expenses.csv holds a row whose amount text float() does not parse.
HasUnparseableAmount ==
  /\ csvFile # Absent
  /\ \E r \in 1..Len(csvFile.rows) :
       /\ csvFile.rows[r] # <<>>
       /\ LET d == ReadRow(csvFile.header, csvFile.rows[r]) IN
          "amount" \in DOMAIN d /\ IsStr(d["amount"]) /\ ~ParseFloat(d["amount"].str).ok

\* C1: saving a non-empty ledger on exit and starting the program again
\* yields the same number of records with equal (date, category, amount,
\* description), in storage order.
C1_RoundTrip ==
  [][(pc = "exited" /\ pc' = "menu" /\ expenses # <<>>)
       => SameTuples(expenses, expenses')]_vars

\* C2: in every reachable state the budget is unset or strictly positive.
\* (A set-budget input <= 0 leaves pc, budget and budget.txt unchanged in
\* EnterBudget; the part of the claim that fails is this invariant.)
C2_BudgetUnsetOrPositive == budget = PyNone \/ FGt(budget, F(0))

\* C3: whenever the records have just been persisted (menu save or exit),
\* every record of the ledger has all four fields and an amount > 0.
C3_PersistedRecordsWellFormed ==
  out.kind \in {"saved", "bye"} =>
    \A i \in 1..Len(expenses) :
      Complete(expenses[i]) /\ FGt(expenses[i]["amount"], F(0))

\* C4: after the startup load the budget is the value stored in budget.txt
\* when that file exists and parses, and unset otherwise, whatever the state
\* of expenses.csv.
C4_BudgetLoadedSeparately == out.kind = "startup" => budget = StoredBudget

\* C5: no amount input appends a record while it is being validated, the
\* amount loop is left only with an amount > 0, and the record then appended
\* is one record carrying that amount.
C5_OnlyPositiveAmountAppended ==
  [][/\ pc = "add_amount" => expenses' = expenses
     /\ (pc = "add_amount" /\ pc' = "add_description") => FGt(loc'.amount, F(0))
     /\ (pc = "add_description" /\ pc' = "menu") =>
          /\ Len(expenses') = Len(expenses) + 1
          /\ SubSeq(expenses', 1, Len(expenses)) = expenses
          /\ FGt(expenses'[Len(expenses')]["amount"], F(0))]_vars

\* C6: for a budget b > 0 and the records of the tracked month whose amounts
\* sum to s, track_budget reports remaining = b - s and warns iff s > b.
C6_RemainingAndWarning ==
  (out.kind = "track" /\ FGt(budget, F(0))) =>
    LET s == SumOver(TrackedWith({"amount"}), AmountOf) IN
    /\ out.remaining = FSub(budget, s)
    /\ out.over <=> FGt(s, budget)

\* C6 witness: a tracked month with records whose amounts sum to exactly the
\* budget, and no warning.
C6_Witness ==
  /\ out.kind = "track"
  /\ FGt(budget, F(0))
  /\ TrackedWith({"amount"}) # {}
  /\ SumOver(TrackedWith({"amount"}), AmountOf) = budget
  /\ ~out.over

\* C7: the record lines view_expenses prints are in descending calendar
\* order of their dates, and records of one date are in insertion order.
C7_ViewNewestFirst ==
  (out.kind = "view" /\ out.error = "") =>
    \A i, j \in 1..Len(out.lines) :
      (i < j /\ ~out.lines[i].skipped /\ ~out.lines[j].skipped) =>
        /\ DateNum(expenses[out.lines[i].idx]) >= DateNum(expenses[out.lines[j].idx])
        /\ DateNum(expenses[out.lines[i].idx]) = DateNum(expenses[out.lines[j].idx])
             => out.lines[i].idx < out.lines[j].idx

\* C8: the category totals of track_budget are the sums of the amounts of
\* the tracked month's records that have a category and an amount, each
\* record counted under its own category, so the totals add up to the sum
\* over those records.
C8_CategoryTotals ==
  out.kind = "track" =>
    LET I == TrackedWith({"category", "amount"}) IN
    /\ DOMAIN out.categories = {expenses[i]["category"] : i \in I}
    /\ \A c \in DOMAIN out.categories :
         out.categories[c] =
           SumOver({i \in I : expenses[i]["category"] = c}, AmountOf)
    /\ SumOver(DOMAIN out.categories, out.categories) = SumOver(I, AmountOf)

\* C8 witness: a tracked month in which one category's total is the sum of
\* two records.
C8_Witness ==
  /\ out.kind = "track"
  /\ \E c \in DOMAIN out.categories :
       Cardinality({i \in TrackedWith({"category", "amount"}) :
                      expenses[i]["category"] = c}) >= 2

\* C9: when expenses.csv holds a row with an unparseable amount, the ledger
\* is empty after the startup load.
C9_BadRowEmptiesLedger ==
  (out.kind = "startup" /\ HasUnparseableAmount) => expenses = <<>>

\* C10: view_expenses ends without an error; it prints one line for every
\* record, the "skipped" notice exactly for the records that lack a field.
C10_ViewNeverFails ==
  out.kind = "view" =>
    /\ out.error = ""
    /\ {out.lines[n].idx : n \in 1..Len(out.lines)} = 1..Len(expenses)
    /\ \A n \in 1..Len(out.lines) :
         out.lines[n].skipped <=> ~Complete(expenses[out.lines[n].idx])

\* ---------------------------------------------------- supporting properties
\* What remains true of the code where C1, C2, C4, C5 and C7 fail; each
\* holds under Spec.

\* A record with exactly the four keys and no None value.
WellFormed(d) == DOMAIN d = FieldSet /\ \A k \in FieldSet : d[k] # PyNone

\* Beside C1: a non-empty ledger of well-formed records is reloaded as it
\* was saved.
RoundTripOfWellFormed ==
  [][(/\ pc = "exited"
      /\ pc' = "menu"
      /\ expenses # <<>>
      /\ \A i \in 1..Len(expenses) : WellFormed(expenses[i]))
       => SameTuples(expenses, expenses')]_vars

\* Beside C2: a budget input that is rejected changes nothing but the
\* message, and an input that parses to a value <= 0 is rejected.
RejectedBudgetChangesNothing ==
  [][/\ (pc = "set_budget" /\ out'.kind = "rejected")
          => UNCHANGED <<budget, budgetFile, pc, loc>>
     /\ (pc = "set_budget" /\ pc' = "menu") => ~FLe(budget', F(0))]_vars

\* Beside C4: when expenses.csv exists and every row loads, the budget after
\* the startup load is the one budget.txt holds.
BudgetLoadedWithLedger ==
  (/\ out.kind = "startup"
   /\ csvFile # Absent
   /\ ~LoadRows(csvFile.header, csvFile.rows, <<>>).raised)
    => budget = StoredBudget

\* Beside C5: the amount loop is left only with an amount that is not <= 0
\* (a positive number or nan), and that amount is the one appended.
AppendedAmountNotLeZero ==
  [][/\ pc = "add_amount" => expenses' = expenses
     /\ (pc = "add_amount" /\ out'.kind = "rejected") => (pc' = pc /\ loc' = loc)
     /\ (pc = "add_amount" /\ pc' = "add_description") => ~FLe(loc'.amount, F(0))
     /\ (pc = "add_description" /\ pc' = "menu") =>
          /\ Len(expenses') = Len(expenses) + 1
          /\ SubSeq(expenses', 1, Len(expenses)) = expenses
          /\ expenses'[Len(expenses')]["amount"] = loc.amount]_vars

\* Beside C7: the record lines of a view are in descending order of their
\* date texts, and records with the same text are in insertion order.
ViewInTextOrder ==
  (out.kind = "view" /\ out.error = "") =>
    \A i, j \in 1..Len(out.lines) :
      (i < j /\ ~out.lines[i].skipped /\ ~out.lines[j].skipped) =>
        LET a == expenses[out.lines[i].idx]["date"]
            b == expenses[out.lines[j].idx]["date"]
        IN  /\ ~StrLess(a.str, b.str)
            /\ a = b => out.lines[i].idx < out.lines[j].idx

=============================================================================
